---- MODULE Spec2Model ----
(***************************************************************************)
(* Model of the Satellite API data reader (api/examples/api_data_reader.py) *)
(* and of helpers of blocksatcli/util.py.                                   *)
(*                                                                          *)
(* Bytes are integers 0..255 and byte strings are sequences of bytes.  The  *)
(* reader is Python 2 code (str/bytes are the same type, zlib.crc32 and the *)
(* struct code 'i' both give signed 32-bit integers).  A 32-bit word is     *)
(* kept as its four little-endian bytes, because it does not fit the        *)
(* integers of the model checker until it is made signed.                   *)
(***************************************************************************)
EXTENDS Integers, Sequences, FiniteSets, TLC

(***************************************************************************)
(* Bounds of the model                                                      *)
(***************************************************************************)
\* number of outer frames the receiver writes into the pipe
MaxFrames == 2
\* longest payload of an outer frame written into the pipe
MaxDataLen == 2
\* seconds the wall clock may advance
MaxClock == 1
\* longest payload of an inner (user) message
MaxUserLen == 2
\* longest file name of an inner (user) message
MaxNameLen == 2
\* longest vector _ask_multiple_choice is given
MaxVecLen == 3
\* answers _ask_multiple_choice turns down before the user gives up
MaxPrompts == 2
\* longest command root_cmd is given
MaxCmdLen == 3
\* times root_cmd is called on its own result
MaxCalls == 2
\* longest header _print_header is given
MaxHeaderLen == 6
\* largest target_len tried besides the defaults of the code
MaxTargetLen == 12

(***************************************************************************)
(* Constants of api_data_reader.py                                          *)
(***************************************************************************)
OUT_DATA_DELIMITER ==
  << 118, 121, 113, 122, 98, 101, 102, 114, 115, 110, 122, 113, 97, 104, 103, 100,
     107, 114, 115, 105, 100, 122, 105, 103, 120, 118, 114, 112, 112, 97, 116, 111,
     224, 224, 36, 26, 228, 91, 34, 181, 90, 11, 118, 23, 167, 167, 157,
     165, 214, 0, 87, 125, 77, 166, 84, 79, 218, 55, 250, 101, 117, 58, 172, 220 >>

OUT_DATA_HEADER_LEN == 64 + 8

DELIMITER_LEN == Len(OUT_DATA_DELIMITER)

USER_HEADER_LEN == 255 + 1 + 4

\* width of the name field of USER_HEADER_FORMAT ('255sxi')
USER_NAME_LEN == 255

MAX_READ == 65536

(***************************************************************************)
(* Python helpers                                                           *)
(***************************************************************************)
Min(a, b) == IF a < b THEN a ELSE b

\* s[a:b] of Python for 0 <= a, 0 <= b
Slice(s, a, b) == SubSeq(s, a + 1, Min(b, Len(s)))

\* s[a:] of Python for 0 <= a
SliceFrom(s, a) == SubSeq(s, a + 1, Len(s))

\* n copies of the byte b
Rep(b, n) == [i \in 1..n |-> b]

\* str.strip('\0'): NUL bytes removed at both ends
RStripNul_BothEnds(s) ==
  LET keep  == {i \in 1..Len(s) : s[i] # 0}
      first == IF keep = {} THEN 1 ELSE CHOOSE i \in keep : \A j \in keep : i <= j
      last  == IF keep = {} THEN 0 ELSE CHOOSE i \in keep : \A j \in keep : j <= i
  IN  SubSeq(s, first, last)

\* str.rstrip('\0')
RStripNul(s) ==
  LET keep == {i \in 1..Len(s) : s[i] # 0}
      last == IF keep = {} THEN 0 ELSE CHOOSE i \in keep : \A j \in keep : j <= i
  IN  SubSeq(s, 1, last)

(***************************************************************************)
(* struct: native layout of 'Q' (8 bytes) and 'i' (4 bytes), little-endian  *)
(***************************************************************************)
\* the largest integer of the model; stands for every length of 2^31 or more
HUGE == 2147483647

\* struct.pack('Q', n) for 0 <= n < 2^31
PackQ(n) ==
  << n % 256, (n \div 256) % 256, (n \div 65536) % 256, (n \div 16777216) % 256,
     0, 0, 0, 0 >>

\* struct.unpack('Q', bs): unsigned 64-bit; values of 2^31 or more become HUGE
UnpackQ(bs) ==
  IF bs[5] = 0 /\ bs[6] = 0 /\ bs[7] = 0 /\ bs[8] = 0 /\ bs[4] < 128
  THEN bs[1] + 256 * bs[2] + 65536 * bs[3] + 16777216 * bs[4]
  ELSE HUGE

\* the signed 32-bit integer of four little-endian bytes (struct code 'i')
ToSigned(w) ==
  w[1] + 256 * w[2] + 65536 * w[3]
    + 16777216 * (IF w[4] >= 128 THEN w[4] - 256 ELSE w[4])

(***************************************************************************)
(* zlib.crc32 (reflected CRC-32, polynomial 0xEDB88320)                     *)
(***************************************************************************)
RECURSIVE XorBits(_, _, _)
XorBits(a, b, n) ==
  IF n = 0 THEN 0
  ELSE ((a + b) % 2) + 2 * XorBits(a \div 2, b \div 2, n - 1)

XorByte(a, b) == XorBits(a, b, 8)

XorWord(u, v) ==
  << XorByte(u[1], v[1]), XorByte(u[2], v[2]), XorByte(u[3], v[3]),
     XorByte(u[4], v[4]) >>

\* logical shift right by one bit of a little-endian word
Shr1(w) ==
  << (w[1] \div 2) + (w[2] % 2) * 128, (w[2] \div 2) + (w[3] % 2) * 128,
     (w[3] \div 2) + (w[4] % 2) * 128, w[4] \div 2 >>

CRC_POLY == << 32, 131, 184, 237 >>

\* n steps of the bitwise CRC on the word w
RECURSIVE CrcBits(_, _)
CrcBits(w, n) ==
  IF n = 0 THEN w
  ELSE CrcBits(IF w[1] % 2 = 1 THEN XorWord(Shr1(w), CRC_POLY) ELSE Shr1(w),
               n - 1)

\* the table of the bytewise CRC
CrcTable == [b \in 0..255 |-> CrcBits(<< b, 0, 0, 0 >>, 8)]

CrcByte(w, b) ==
  XorWord(<< w[2], w[3], w[4], 0 >>, CrcTable[XorByte(w[1], b)])

RECURSIVE CrcFold(_, _, _)
CrcFold(w, s, i) ==
  IF i > Len(s) THEN w ELSE CrcFold(CrcByte(w, s[i]), s, i + 1)

\* the CRC-32 of s as its four little-endian bytes
Crc32Word(s) ==
  LET w == CrcFold(<< 255, 255, 255, 255 >>, s, 1)
  IN  << 255 - w[1], 255 - w[2], 255 - w[3], 255 - w[4] >>

\* zlib.crc32(s): a signed integer in Python 2
crc32(s) == ToSigned(Crc32Word(s))

(***************************************************************************)
(* save_file: the downloads directory is a map from file name to content   *)
(***************************************************************************)
\* the default of the parameter filename
None == << -1 >>

Digits2(n) == << 48 + (n \div 10), 48 + (n % 10) >>

\* time.strftime("%Y%m%d%H%M%S") at t seconds after 2019-01-01 00:00:00
Timestamp(t) ==
  << 50, 48, 49, 57, 48, 49, 48, 49 >>
    \o Digits2((t \div 3600) % 24) \o Digits2((t \div 60) % 60) \o Digits2(t % 60)

\* save_file opening the file with 'ab': an existing file is added to
SaveFile_Append(fs, data, filename, t) ==
  LET name == IF filename = None THEN Timestamp(t) ELSE filename
  IN  [n \in DOMAIN fs \cup {name} |->
         IF n # name THEN fs[n]
         ELSE IF n \in DOMAIN fs THEN fs[n] \o data ELSE data]

\* the directory after save_file(data, filename) called at time t
SaveFile(fs, data, filename, t) ==
  LET name == IF filename = None THEN Timestamp(t) ELSE filename
  IN  [n \in DOMAIN fs \cup {name} |-> IF n = name THEN data ELSE fs[n]]

\* the exception open(os.path.join(DOWNLOAD_DIR, filename), 'wb') raises:
\* with the empty name the path is the directory itself, and a name with a
\* NUL byte is no path at all
OpenError(filename) ==
  IF filename = << >> THEN "IOError"
  ELSE IF \E i \in 1..Len(filename) : filename[i] = 0 THEN "TypeError"
  ELSE "none"

(***************************************************************************)
(* parse_user_data                                                          *)
(***************************************************************************)

\* parse_user_data without the comparison of the checksums
ParseUserData_NoCheck(data) ==
  LET head == Slice(data, 0, USER_HEADER_LEN)
  IN  IF Len(head) # USER_HEADER_LEN
      THEN [raised |-> "struct.error", filename |-> << >>, checksum |-> 0,
            user_data |-> << >>]
      ELSE [raised |-> "none",
            filename |-> RStripNul(SubSeq(head, 1, USER_NAME_LEN)),
            checksum |->
              ToSigned(SubSeq(head, USER_NAME_LEN + 2, USER_HEADER_LEN)),
            user_data |-> SliceFrom(data, USER_HEADER_LEN)]

\* parse_user_data with a zlib.crc32 that is never negative, as it is in
\* Python 3, compared with the signed checksum of the header: the two are
\* equal only when the words are equal and the checksum is not negative
ParseUserData_UnsignedCrc(data) ==
  LET head == Slice(data, 0, USER_HEADER_LEN)
  IN  IF Len(head) # USER_HEADER_LEN
      THEN [raised |-> "struct.error", filename |-> << >>, checksum |-> 0,
            user_data |-> << >>]
      ELSE LET filename  == RStripNul(SubSeq(head, 1, USER_NAME_LEN))
               word      == SubSeq(head, USER_NAME_LEN + 2, USER_HEADER_LEN)
               checksum  == ToSigned(word)
               user_data == SliceFrom(data, USER_HEADER_LEN)
           IN  IF Crc32Word(user_data) # word \/ checksum < 0
               THEN [raised |-> "ValueError", filename |-> filename,
                     checksum |-> checksum, user_data |-> << >>]
               ELSE [raised |-> "none", filename |-> filename,
                     checksum |-> checksum, user_data |-> user_data]

\* the outcome of parse_user_data(data): the exception raised, or the file
\* name and the content handed to save_file, and the checksum it took from
\* the header (it prints it)
ParseUserData(data) ==
  LET head == Slice(data, 0, USER_HEADER_LEN)
  IN  IF Len(head) # USER_HEADER_LEN
      THEN [raised |-> "struct.error", filename |-> << >>, checksum |-> 0,
            user_data |-> << >>]
      ELSE LET filename   == RStripNul(SubSeq(head, 1, USER_NAME_LEN))
               checksum   ==
                 ToSigned(SubSeq(head, USER_NAME_LEN + 2, USER_HEADER_LEN))
               user_data  == SliceFrom(data, USER_HEADER_LEN)
               data_crc32 == crc32(user_data)
           IN  IF data_crc32 # checksum
               THEN [raised |-> "ValueError", filename |-> filename,
                     checksum |-> checksum, user_data |-> << >>]
               ELSE [raised |-> "none", filename |-> filename,
                     checksum |-> checksum, user_data |-> user_data]

\* the exception parse_user_data(data) ends with, "none" when it returns
ParseUserDataRaises(data) ==
  LET u == ParseUserData(data)
  IN  IF u.raised # "none" THEN u.raised ELSE OpenError(u.filename)

(***************************************************************************)
(* parse_api_out_data                                                       *)
(***************************************************************************)

\* parse_api_out_data comparing only the 32 bytes its docstring speaks of
ParseApiOutData_Delim32(buf) ==
  IF Len(buf) < OUT_DATA_HEADER_LEN
  THEN [raised |-> FALSE, data |-> << >>]
  ELSE IF Slice(buf, 0, 32) # Slice(OUT_DATA_DELIMITER, 0, 32)
  THEN [raised |-> TRUE, data |-> << >>]
  ELSE LET data_length ==
             UnpackQ(SubSeq(buf, DELIMITER_LEN + 1, OUT_DATA_HEADER_LEN))
       IN  IF Len(buf) < data_length
           THEN [raised |-> FALSE, data |-> << >>]
           ELSE [raised |-> FALSE,
                 data |-> Slice(buf, OUT_DATA_HEADER_LEN,
                                OUT_DATA_HEADER_LEN + data_length)]

\* the outcome of parse_api_out_data(rd_buffer): RuntimeError raised, or the
\* data returned ([] and '' are both the empty sequence)
ParseApiOutData(buf) ==
  IF Len(buf) < OUT_DATA_HEADER_LEN
  THEN [raised |-> FALSE, data |-> << >>]
  ELSE IF Slice(buf, 0, DELIMITER_LEN) # OUT_DATA_DELIMITER
  THEN [raised |-> TRUE, data |-> << >>]
  ELSE LET data_length == UnpackQ(SubSeq(buf, DELIMITER_LEN + 1, OUT_DATA_HEADER_LEN))
       IN  IF Len(buf) < data_length
           THEN [raised |-> FALSE, data |-> << >>]
           ELSE [raised |-> FALSE,
                 data |-> Slice(buf, OUT_DATA_HEADER_LEN,
                                OUT_DATA_HEADER_LEN + data_length)]

\* the pop without the header: rd_buffer[len(data):]
Pop_NoHeader(buf, data) == SliceFrom(buf, Len(data))

\* rd_buffer[(OUT_DATA_HEADER_LEN + len(data)):]
Pop(buf, data) == SliceFrom(buf, OUT_DATA_HEADER_LEN + Len(data))

(***************************************************************************)
(* The environment of the reader                                            *)
(***************************************************************************)
\* the structure the receiver writes into the pipe for one transmission
Frame(payload) == OUT_DATA_DELIMITER \o PackQ(Len(payload)) \o payload

\* the payload of the j-th transmission when it has n bytes
FrameData(j, n) == [i \in 1..n |-> 16 * j + i]

\* an inner message as the sender packs it: struct.pack('255sxi', name, crc)
\* followed by the content the checksum was taken of
PackUser(name, word) ==
  name \o Rep(0, USER_NAME_LEN - Len(name)) \o << 0 >> \o word

UserMsg(name, content) == PackUser(name, Crc32Word(content)) \o content

\* what str(gpg.decrypt(data)) may be: nothing (the message is not for this
\* key), a well-formed inner message, one whose content was altered after
\* the checksum was taken, and one shorter than the inner header
DecryptResults ==
  { << >>,
    UserMsg(<< 102 >>, << 1, 2 >>),
    PackUser(<< 102 >>, Crc32Word(<< 1, 2 >>)) \o << 1, 3 >>,
    << 104, 105 >> }

\* the length pipe_f.read(MAX_READ) returns: it blocks while the pipe is
\* empty and returns the bytes that are there, at most MAX_READ of them
ReadLens(p) == IF p = << >> THEN {} ELSE {Min(Len(p), MAX_READ)}

\* the offsets in a frame with n payload bytes at which the receiver may
\* pause while it writes the frame: after the first byte, inside and at the
\* end of the delimiter, before the last header byte, and at every byte
\* from the end of the header on
WriteCuts(n) ==
  {1, DELIMITER_LEN \div 2, DELIMITER_LEN, OUT_DATA_HEADER_LEN - 1}
    \cup (OUT_DATA_HEADER_LEN..(OUT_DATA_HEADER_LEN + n))

(***************************************************************************)
(* State                                                                    *)
(***************************************************************************)
VARIABLES
  pipe,            \* bytes written into the named pipe and not read yet
  sent,            \* payloads of the frames written into the pipe, in order
  unwritten,       \* bytes of the last frame the receiver has yet to write
  rd_buffer,       \* main: rd_buffer
  decrypted_data,  \* main: decrypted_data, what the last decryption gave
  state,           \* "AWAITING_FRAME" while main loops, "TERMINATED" after
  error,           \* the exception that ended main, "none" if none did
  files,           \* the downloads directory: file name -> content
  clock,           \* the second time.strftime read last
  save_raw,        \* args.save_raw
  plaintext,       \* args.plaintext
  gpg,             \* whether main made the GPG object
  log,             \* one record per frame main took out of rd_buffer
  input,           \* the arguments of the function a unit specification calls
  output,          \* what that function gave
  closed           \* the receiver has closed its end of the pipe

vars == << pipe, sent, unwritten, rd_buffer, decrypted_data, state, error,
           files, clock, save_raw, plaintext, gpg, log, input, output,
           closed >>

NoFiles == [n \in {} |-> << >>]

\* input and output outside the unit specifications
NoInput == [name |-> << >>]

\* main up to "Waiting for data...": the arguments are parsed, the pipe is
\* open, the GPG object exists unless --plaintext was given
Init ==
  /\ pipe = << >>
  /\ sent = << >>
  /\ unwritten = << >>
  /\ rd_buffer = << >>
  /\ decrypted_data = << >>
  /\ state = "AWAITING_FRAME"
  /\ error = "none"
  /\ files = NoFiles
  /\ clock = 0
  /\ save_raw \in BOOLEAN
  /\ plaintext \in BOOLEAN
  /\ ~(save_raw /\ plaintext)
  /\ gpg = ~plaintext
  /\ log = << >>
  /\ input = NoInput
  /\ output = NoInput
  /\ closed = FALSE

(***************************************************************************)
(* The receiver writes a transmission into the pipe, in one or more pieces *)
(***************************************************************************)
\* the receiver starts the next frame and writes it up to some offset
WriteFrame ==
  /\ ~closed
  /\ Len(sent) < MaxFrames
  /\ unwritten = << >>
  /\ \E n \in 0..MaxDataLen :
       LET payload == FrameData(Len(sent) + 1, n)
           frame   == Frame(payload)
       IN  /\ sent' = Append(sent, payload)
           /\ \E c \in WriteCuts(n) :
                /\ pipe' = pipe \o SubSeq(frame, 1, c)
                /\ unwritten' = SliceFrom(frame, c)
  /\ UNCHANGED << rd_buffer, decrypted_data, state, error, files, clock,
                  save_raw, plaintext, gpg, log, input, output, closed >>

\* the receiver writes more of the frame it paused in
WriteMore ==
  /\ ~closed
  /\ unwritten # << >>
  /\ LET n   == Len(sent[Len(sent)])
         off == OUT_DATA_HEADER_LEN + n - Len(unwritten)
     IN  \E c \in WriteCuts(n) :
           /\ c > off
           /\ pipe' = pipe \o SubSeq(unwritten, 1, c - off)
           /\ unwritten' = SliceFrom(unwritten, c - off)
  /\ UNCHANGED << sent, rd_buffer, decrypted_data, state, error, files, clock,
                  save_raw, plaintext, gpg, log, input, output, closed >>

(***************************************************************************)
(* One iteration of the loop of main, by its outcome                        *)
(***************************************************************************)
\* the length pipe_f.read(MAX_READ) returns in this iteration: once the
\* receiver has closed the pipe and all its bytes are read, the read no
\* longer blocks and returns the empty string
Reads == IF closed /\ pipe = << >> THEN {0} ELSE ReadLens(pipe)

\* the record main's iteration leaves in the log
Entry(d, len, usedGpg, usedParser, name) ==
  [data |-> d, length |-> len, gpg |-> usedGpg, parser |-> usedParser,
   saved |-> name]

\* the length the header at the front of buf announces
Announced(buf) == UnpackQ(SubSeq(buf, DELIMITER_LEN + 1, OUT_DATA_HEADER_LEN))

\* the seconds time.strftime may read next: time does not run backwards
NextClock == { t \in clock..(clock + 1) : t <= MaxClock }

\* parse_api_out_data returns nothing: read again
LoopNeedMore ==
  /\ state = "AWAITING_FRAME"
  /\ \E k \in Reads :
       LET buf == rd_buffer \o SubSeq(pipe, 1, k)
           r   == ParseApiOutData(buf)
       IN  /\ ~r.raised
           /\ Len(r.data) = 0
           /\ pipe' = SliceFrom(pipe, k)
           /\ rd_buffer' = buf
  /\ UNCHANGED << unwritten, decrypted_data, sent, state, error, files, clock,
                  save_raw, plaintext, gpg, log, input, output, closed >>


\* the loop with the RuntimeError caught and ignored
LoopProtocolError_Caught ==
  /\ state = "AWAITING_FRAME"
  /\ \E k \in Reads :
       LET buf == rd_buffer \o SubSeq(pipe, 1, k)
           r   == ParseApiOutData(buf)
       IN  /\ r.raised
           /\ pipe' = SliceFrom(pipe, k)
           /\ rd_buffer' = buf
  /\ error' = "RuntimeError"
  /\ UNCHANGED << unwritten, decrypted_data, sent, state, files, clock,
                  save_raw, plaintext, gpg, log, input, output, closed >>

\* parse_api_out_data raises RuntimeError, which nothing catches
LoopProtocolError ==
  /\ state = "AWAITING_FRAME"
  /\ \E k \in Reads :
       LET buf == rd_buffer \o SubSeq(pipe, 1, k)
           r   == ParseApiOutData(buf)
       IN  /\ r.raised
           /\ pipe' = SliceFrom(pipe, k)
           /\ rd_buffer' = buf
  /\ state' = "TERMINATED"
  /\ error' = "RuntimeError"
  /\ UNCHANGED << unwritten, decrypted_data, sent, files, clock, save_raw,
                  plaintext, gpg, log, input, output, closed >>


\* --plaintext with the data still handed to the decryption
LoopPlaintext_ViaGpg ==
  /\ state = "AWAITING_FRAME"
  /\ plaintext
  /\ \E k \in Reads, t \in NextClock :
       LET buf == rd_buffer \o SubSeq(pipe, 1, k)
           r   == ParseApiOutData(buf)
       IN  /\ ~r.raised
           /\ Len(r.data) > 0
           /\ pipe' = SliceFrom(pipe, k)
           /\ rd_buffer' = Pop(buf, r.data)
           /\ clock' = t
           /\ files' = SaveFile(files, r.data, None, t)
           /\ log' = Append(log, Entry(r.data, Announced(buf), TRUE, FALSE,
                                       << Timestamp(t) >>))
  /\ UNCHANGED << unwritten, decrypted_data, sent, state, error, save_raw,
                  plaintext, gpg, input, output, closed >>

\* --plaintext: the data is saved under a timestamp
LoopPlaintext ==
  /\ state = "AWAITING_FRAME"
  /\ plaintext
  /\ \E k \in Reads, t \in NextClock :
       LET buf == rd_buffer \o SubSeq(pipe, 1, k)
           r   == ParseApiOutData(buf)
       IN  /\ ~r.raised
           /\ Len(r.data) > 0
           /\ pipe' = SliceFrom(pipe, k)
           /\ rd_buffer' = Pop(buf, r.data)
           /\ clock' = t
           /\ files' = SaveFile(files, r.data, None, t)
           /\ log' = Append(log, Entry(r.data, Announced(buf), FALSE, FALSE,
                                       << Timestamp(t) >>))
  /\ UNCHANGED << unwritten, decrypted_data, sent, state, error, save_raw,
                  plaintext, gpg, input, output, closed >>


\* a failed decryption whose empty result is saved all the same
LoopDecryptMiss_Saves ==
  /\ state = "AWAITING_FRAME"
  /\ ~plaintext
  /\ \E k \in Reads :
       LET buf == rd_buffer \o SubSeq(pipe, 1, k)
           r   == ParseApiOutData(buf)
       IN  /\ ~r.raised
           /\ Len(r.data) > 0
           /\ pipe' = SliceFrom(pipe, k)
           /\ rd_buffer' = Pop(buf, r.data)
           /\ decrypted_data' = << >>
           /\ files' = SaveFile(files, << >>, None, clock)
           /\ log' = Append(log, Entry(r.data, Announced(buf), TRUE, FALSE,
                                       << Timestamp(clock) >>))
  /\ UNCHANGED << unwritten, sent, state, error, clock, save_raw, plaintext,
                  gpg, input, output, closed >>

\* the decryption gives nothing: "Message not for us"
LoopDecryptMiss ==
  /\ state = "AWAITING_FRAME"
  /\ ~plaintext
  /\ \E k \in Reads :
       LET buf == rd_buffer \o SubSeq(pipe, 1, k)
           r   == ParseApiOutData(buf)
       IN  /\ ~r.raised
           /\ Len(r.data) > 0
           /\ pipe' = SliceFrom(pipe, k)
           /\ rd_buffer' = Pop(buf, r.data)
           /\ decrypted_data' = << >>
           /\ log' = Append(log, Entry(r.data, Announced(buf), TRUE, FALSE,
                                       << >>))
  /\ UNCHANGED << unwritten, sent, state, error, files, clock, save_raw,
                  plaintext, gpg, input, output, closed >>

\* --save-raw with the inner header parsed all the same: the content behind
\* the header is saved, and a message parse_user_data rejects ends main
LoopSaveRaw_ViaParser ==
  /\ state = "AWAITING_FRAME"
  /\ ~plaintext
  /\ save_raw
  /\ \E k \in Reads, dec \in DecryptResults, t \in NextClock :
       LET buf == rd_buffer \o SubSeq(pipe, 1, k)
           r   == ParseApiOutData(buf)
           u   == ParseUserData(dec)
       IN  /\ ~r.raised
           /\ Len(r.data) > 0
           /\ Len(dec) > 0
           /\ pipe' = SliceFrom(pipe, k)
           /\ rd_buffer' = Pop(buf, r.data)
           /\ decrypted_data' = dec
           /\ clock' = t
           /\ IF u.raised = "none"
              THEN /\ files' = SaveFile(files, u.user_data, None, t)
                   /\ UNCHANGED << state, error >>
              ELSE /\ files' = files
                   /\ state' = "TERMINATED"
                   /\ error' = u.raised
           /\ log' = Append(log, Entry(r.data, Announced(buf), TRUE, TRUE,
                                       << Timestamp(t) >>))
  /\ UNCHANGED << unwritten, sent, save_raw, plaintext, gpg, input, output,
                  closed >>

\* --save-raw: the decrypted data is saved under a timestamp
LoopSaveRaw ==
  /\ state = "AWAITING_FRAME"
  /\ ~plaintext
  /\ save_raw
  /\ \E k \in Reads, dec \in DecryptResults, t \in NextClock :
       LET buf == rd_buffer \o SubSeq(pipe, 1, k)
           r   == ParseApiOutData(buf)
       IN  /\ ~r.raised
           /\ Len(r.data) > 0
           /\ Len(dec) > 0
           /\ pipe' = SliceFrom(pipe, k)
           /\ rd_buffer' = Pop(buf, r.data)
           /\ decrypted_data' = dec
           /\ clock' = t
           /\ files' = SaveFile(files, dec, None, t)
           /\ log' = Append(log, Entry(r.data, Announced(buf), TRUE, FALSE,
                                       << Timestamp(t) >>))
  /\ UNCHANGED << unwritten, sent, state, error, save_raw, plaintext, gpg,
                  input, output, closed >>

\* normal mode: parse_user_data checks the decrypted data and saves the file
LoopParseUser ==
  /\ state = "AWAITING_FRAME"
  /\ ~plaintext
  /\ ~save_raw
  /\ \E dec \in DecryptResults, k \in Reads :
       LET buf == rd_buffer \o SubSeq(pipe, 1, k)
           r   == ParseApiOutData(buf)
           u   == ParseUserData(dec)
       IN  /\ Len(dec) > 0
           /\ ~r.raised
           /\ Len(r.data) > 0
           /\ ParseUserDataRaises(dec) = "none"
           /\ pipe' = SliceFrom(pipe, k)
           /\ rd_buffer' = Pop(buf, r.data)
           /\ decrypted_data' = dec
           /\ files' = SaveFile(files, u.user_data, u.filename, clock)
           /\ log' = Append(log, Entry(r.data, Announced(buf), TRUE, TRUE,
                                       << u.filename >>))
  /\ UNCHANGED << unwritten, sent, state, error, clock, save_raw, plaintext,
                  gpg, input, output, closed >>

\* normal mode: parse_user_data raises (ValueError on a checksum mismatch,
\* struct.error on a short message, the error of open), which nothing
\* catches
LoopParseUserRaises ==
  /\ state = "AWAITING_FRAME"
  /\ ~plaintext
  /\ ~save_raw
  /\ \E dec \in DecryptResults, k \in Reads :
       LET buf == rd_buffer \o SubSeq(pipe, 1, k)
           r   == ParseApiOutData(buf)
       IN  /\ Len(dec) > 0
           /\ ~r.raised
           /\ Len(r.data) > 0
           /\ ParseUserDataRaises(dec) # "none"
           /\ pipe' = SliceFrom(pipe, k)
           /\ rd_buffer' = Pop(buf, r.data)
           /\ decrypted_data' = dec
           /\ state' = "TERMINATED"
           /\ error' = ParseUserDataRaises(dec)
           /\ log' = Append(log, Entry(r.data, Announced(buf), TRUE, TRUE,
                                       << >>))
  /\ UNCHANGED << unwritten, sent, files, clock, save_raw, plaintext, gpg,
                  input, output, closed >>

Loop ==
  \/ LoopNeedMore
  \/ LoopProtocolError
  \/ LoopPlaintext
  \/ LoopDecryptMiss
  \/ LoopSaveRaw
  \/ LoopParseUser
  \/ LoopParseUserRaises

Next == WriteFrame \/ WriteMore \/ Loop

Spec == Init /\ [][Next]_vars

(***************************************************************************)
(* The receiver may close its end of the pipe, at any point of its writing *)
(***************************************************************************)
ClosePipe ==
  /\ ~closed
  /\ closed' = TRUE
  /\ UNCHANGED << pipe, sent, unwritten, rd_buffer, decrypted_data, state,
                  error, files, clock, save_raw, plaintext, gpg, log, input,
                  output >>

NextClose == Next \/ ClosePipe

SpecClose == Init /\ [][NextClose]_vars

(***************************************************************************)
(* Unit specification of the delimiter check: the pipe holds the first      *)
(* bytes of one frame, one delimiter byte of which may be corrupted, and    *)
(* main runs on it                                                          *)
(***************************************************************************)
\* frame with byte at (1-based) changed by adding v modulo 256; at = 0: intact
Corrupt(frame, at, v) ==
  [i \in 1..Len(frame) |-> IF i = at THEN (frame[i] + v) % 256 ELSE frame[i]]

InitDesync ==
  /\ \E n \in 0..MaxDataLen, at \in 0..DELIMITER_LEN, v \in {1, 128} :
       \E m \in {DELIMITER_LEN, OUT_DATA_HEADER_LEN - 1, OUT_DATA_HEADER_LEN,
                  OUT_DATA_HEADER_LEN + n} :
         LET frame == Frame(FrameData(1, n))
             bytes == SubSeq(Corrupt(frame, at, v), 1, m)
         IN  /\ pipe = bytes
             /\ sent = << FrameData(1, n) >>
             /\ unwritten = SliceFrom(frame, m)
             /\ input = [buf |-> bytes, at |-> at]
  /\ rd_buffer = << >>
  /\ decrypted_data = << >>
  /\ state = "AWAITING_FRAME"
  /\ error = "none"
  /\ files = NoFiles
  /\ clock = 0
  /\ save_raw \in BOOLEAN
  /\ plaintext \in BOOLEAN
  /\ ~(save_raw /\ plaintext)
  /\ gpg = ~plaintext
  /\ log = << >>
  /\ output = NoInput
  /\ closed = FALSE

SpecDesync == InitDesync /\ [][Loop]_vars

(***************************************************************************)
(* Unit specification of parse_user_data: it is called once on an inner     *)
(* message built from a name and a content, the content of which may have   *)
(* one bit flipped after the header was packed                              *)
(***************************************************************************)
NameBytes == {0, 97, 98}

ContentBytes == {0, 255}

\* byte strings of length lo..hi over the bytes in S
Strings(S, lo, hi) == UNION {[1..n -> S] : n \in lo..hi}

\* names that fill the name field, or all of it but one byte
LongNames ==
  { Rep(97, USER_NAME_LEN - 1), Rep(98, USER_NAME_LEN),
    [Rep(97, USER_NAME_LEN) EXCEPT ![2] = 0] }

\* what the sender may put into the name field: no longer than the field, no
\* trailing NUL (the padding is NUL); the empty name and NUL bytes inside
\* the name are among them
FieldNames ==
  {nm \in Strings(NameBytes, 0, Min(MaxNameLen, USER_NAME_LEN)) :
     nm = << >> \/ nm[Len(nm)] # 0} \cup LongNames

\* file names: the names of FieldNames that open takes
Names == {nm \in FieldNames : OpenError(nm) = "none"}

Contents == Strings(ContentBytes, 0, MaxUserLen)

\* the byte b with bit k (0..7) flipped
FlipBit(b, k) == IF (b \div (2 ^ k)) % 2 = 1 THEN b - 2 ^ k ELSE b + 2 ^ k

\* content, and content with one bit flipped
Flips(content) ==
  {content} \cup
  {[content EXCEPT ![i] = FlipBit(content[i], k)] :
     i \in 1..Len(content), k \in 0..7}

InitUser ==
  /\ \E nm \in FieldNames, content \in Contents :
       \E altered \in Flips(content) :
         /\ input = [name |-> nm, content |-> content, altered |-> altered]
         /\ decrypted_data = PackUser(nm, Crc32Word(content)) \o altered
  /\ pipe = << >>
  /\ sent = << >>
  /\ unwritten = << >>
  /\ rd_buffer = << >>
  /\ state = "AWAITING_FRAME"
  /\ error = "none"
  /\ files = NoFiles
  /\ clock = 0
  /\ save_raw = FALSE
  /\ plaintext = FALSE
  /\ gpg = TRUE
  /\ log = << >>
  /\ output = NoInput
  /\ closed = FALSE

\* parse_user_data(decrypted_data)
CallParseUserData ==
  /\ output = NoInput
  /\ LET u == ParseUserData(decrypted_data)
     IN  /\ output' = [u EXCEPT !.raised = ParseUserDataRaises(decrypted_data)]
         /\ files' = IF ParseUserDataRaises(decrypted_data) = "none"
                     THEN SaveFile(files, u.user_data, u.filename, clock)
                     ELSE files
  /\ UNCHANGED << pipe, sent, unwritten, rd_buffer, decrypted_data, state,
                  error, clock, save_raw, plaintext, gpg, log, input,
                  closed >>

SpecUser == InitUser /\ [][CallParseUserData]_vars

(***************************************************************************)
(* blocksatcli/util.py.  Its functions do not touch the reader: the        *)
(* variables of the reader keep the values main starts with, input holds   *)
(* the arguments of the call and output what the call has done so far      *)
(***************************************************************************)
readerVars ==
  << pipe, sent, unwritten, rd_buffer, decrypted_data, state, error, files,
     clock, save_raw, plaintext, gpg, log, closed >>

ReaderIdle ==
  /\ pipe = << >>
  /\ sent = << >>
  /\ unwritten = << >>
  /\ rd_buffer = << >>
  /\ decrypted_data = << >>
  /\ state = "AWAITING_FRAME"
  /\ error = "none"
  /\ files = NoFiles
  /\ clock = 0
  /\ save_raw = FALSE
  /\ plaintext = FALSE
  /\ gpg = TRUE
  /\ log = << >>
  /\ closed = FALSE

(***************************************************************************)
(* Unit specification of _ask_multiple_choice: the user answers the prompt *)
(* with something that is no number or with a number, until the function   *)
(* returns or raises                                                        *)
(***************************************************************************)
\* the elements of vec (to_str is the identity)
Choices == {<< 97 >>, << 98 >>}

\* the vectors the function is called with: assert(len(vec) > 1)
Vecs == UNION {[1..n -> Choices] : n \in 2..MaxVecLen}

\* the numbers the user may enter
Entered == (-(MaxVecLen + 2))..(MaxVecLen + 2)

\* vec[n] of Python for -len(vec) <= n < len(vec)
PyIndex(vec, n) == IF n >= 0 THEN vec[n + 1] ELSE vec[Len(vec) + n + 1]

\* max_resp = len(vec) + 1 if none_option else len(vec)
MaxResp(vec, none_option) == IF none_option THEN Len(vec) + 1 ELSE Len(vec)

InitAsk ==
  /\ ReaderIdle
  /\ \E vec \in Vecs, none_option \in BOOLEAN :
       input = [vec |-> vec, none_option |-> none_option]
  /\ output = [pc |-> "prompt", prompts |-> 0, printed |-> "", resp |-> 0,
               choice |-> << >>]

\* int(input(...)) raises ValueError: "Please choose a number"
AskNotANumber ==
  /\ output.pc = "prompt"
  /\ output.prompts < MaxPrompts
  /\ output' = [output EXCEPT !.prompts = @ + 1,
                              !.printed = "Please choose a number"]
  /\ UNCHANGED << readerVars, input >>

\* resp >= max_resp: "Please choose number from 0 to ..."
AskTooLarge ==
  /\ output.pc = "prompt"
  /\ output.prompts < MaxPrompts
  /\ \E n \in Entered : n >= MaxResp(input.vec, input.none_option)
  /\ output' = [output EXCEPT !.prompts = @ + 1,
                              !.printed = "Please choose number from 0 to"]
  /\ UNCHANGED << readerVars, input >>

\* the number passes the test of line 88: the choice is None, or vec[resp]
AskReturn ==
  /\ output.pc = "prompt"
  /\ \E n \in Entered :
       /\ ~(n >= MaxResp(input.vec, input.none_option))
       /\ (input.none_option /\ n = Len(input.vec)) \/ n >= -Len(input.vec)
       /\ output' =
            [output EXCEPT
               !.pc = "returned",
               !.resp = n,
               !.choice = IF input.none_option /\ n = Len(input.vec)
                          THEN None ELSE PyIndex(input.vec, n)]
  /\ UNCHANGED << readerVars, input >>

\* the number passes the test of line 88 and vec[resp] raises IndexError
AskIndexError ==
  /\ output.pc = "prompt"
  /\ \E n \in Entered :
       /\ ~(n >= MaxResp(input.vec, input.none_option))
       /\ n < -Len(input.vec)
       /\ output' = [output EXCEPT !.pc = "IndexError", !.resp = n]
  /\ UNCHANGED << readerVars, input >>

NextAsk == AskNotANumber \/ AskTooLarge \/ AskReturn \/ AskIndexError

SpecAsk == InitAsk /\ [][NextAsk]_vars

(***************************************************************************)
(* Unit specification of root_cmd: it is called on a command and then on   *)
(* the list it returned                                                     *)
(***************************************************************************)
\* the elements of a command
Words == {"sudo", "apt", "-y"}

\* the commands root_cmd is called with; the empty list is among them
Cmds == UNION {[1..n -> Words] : n \in 0..MaxCmdLen}

\* os.geteuid(): root, or some other user
Euids == {0, 1000}

\* cmd[0] raises IndexError on the empty list; 'and' evaluates it only when
\* the user is not root
RootCmdRaises(cmd, euid) == euid # 0 /\ cmd = << >>

\* root_cmd that looks at the user only
RootCmd_AnyFirst(cmd, euid) ==
  IF euid # 0 THEN << "sudo" >> \o cmd ELSE cmd

\* the list root_cmd(cmd) returns when it raises nothing
RootCmd(cmd, euid) ==
  IF euid # 0 /\ cmd[1] # "sudo" THEN << "sudo" >> \o cmd ELSE cmd

InitRootCmd ==
  /\ ReaderIdle
  /\ \E cmd \in Cmds, euid \in Euids :
       /\ input = [cmd |-> cmd, euid |-> euid]
       /\ output = [cmd |-> cmd, calls |-> 0, raised |-> "none"]

\* root_cmd(cmd) on the list as it is now
CallRootCmd ==
  /\ output.raised = "none"
  /\ output.calls < MaxCalls
  /\ output' =
       IF RootCmdRaises(output.cmd, input.euid)
       THEN [output EXCEPT !.calls = @ + 1, !.raised = "IndexError"]
       ELSE [output EXCEPT !.calls = @ + 1,
                           !.cmd = RootCmd(output.cmd, input.euid)]
  /\ UNCHANGED << readerVars, input >>

SpecRootCmd == InitRootCmd /\ [][CallRootCmd]_vars

(***************************************************************************)
(* Unit specification of _print_header                                      *)
(***************************************************************************)
\* the headers: only their length matters to the function
Headers == {Rep(97, n) : n \in 0..MaxHeaderLen}

\* the values of target_len: small ones, and the defaults of _print_header
\* and _print_sub_header
TargetLens == (0..MaxTargetLen) \cup {60, 80}

\* int(r / 2): the quotient cut towards zero
IntHalf(r) == IF r >= 0 THEN r \div 2 ELSE -((-r) \div 2)

\* the line _print_header(header, target_len) prints after the empty line
PrintHeader(header, target_len) ==
  LET header_len == Len(header) + 2
      remaining  == target_len - header_len
      prefix_len == IntHalf(remaining)
                      + (IF remaining % 1 = 1 THEN 1 ELSE 0)
      suffix_len == IntHalf(remaining)
  IN  Rep(45, prefix_len) \o << 32 >> \o header \o << 32 >>
        \o Rep(45, suffix_len)

InitHeader ==
  /\ ReaderIdle
  /\ \E header \in Headers, target_len \in TargetLens :
       input = [header |-> header, target_len |-> target_len]
  /\ output = NoInput

CallPrintHeader ==
  /\ output = NoInput
  /\ output' = [line |-> PrintHeader(input.header, input.target_len)]
  /\ UNCHANGED << readerVars, input >>

SpecHeader == InitHeader /\ [][CallPrintHeader]_vars

(***************************************************************************)
(* Notions the properties are stated in                                     *)
(***************************************************************************)
\* this step is an iteration of main: it took bytes out of the pipe
ReaderStep == Len(pipe') < Len(pipe)

\* rd_buffer as parse_api_out_data saw it in this iteration
BufRead == rd_buffer \o SubSeq(pipe, 1, Len(pipe) - Len(pipe'))

\* b holds a header whose delimiter is the fixed one
HeaderAt(b) ==
  /\ Len(b) >= OUT_DATA_HEADER_LEN
  /\ SubSeq(b, 1, DELIMITER_LEN) = OUT_DATA_DELIMITER

\* b holds a header whose delimiter is not the fixed one
Desynced(b) ==
  /\ Len(b) >= OUT_DATA_HEADER_LEN
  /\ \E i \in 1..DELIMITER_LEN : b[i] # OUT_DATA_DELIMITER[i]

\* b starts with a whole frame: header and all the bytes it announces
CompleteAt(b) == HeaderAt(b) /\ Len(b) >= OUT_DATA_HEADER_LEN + Announced(b)

\* the payload of the frame b starts with, and what follows the frame
FrontPayload(b) ==
  SubSeq(b, OUT_DATA_HEADER_LEN + 1, OUT_DATA_HEADER_LEN + Announced(b))

AfterFront(b) == SliceFrom(b, OUT_DATA_HEADER_LEN + Announced(b))

LastEntry == log[Len(log)]

NormalMode == ~plaintext /\ ~save_raw

\* the inner message d is long enough and its checksum is not that of its
\* content
ChecksumMismatch(d) ==
  /\ Len(d) >= USER_HEADER_LEN
  /\ ToSigned(SubSeq(d, USER_NAME_LEN + 2, USER_HEADER_LEN))
       # ToSigned(Crc32Word(SliceFrom(d, USER_HEADER_LEN)))

\* the sequences of ss one after the other
RECURSIVE Flatten(_)
Flatten(ss) == IF ss = << >> THEN << >> ELSE Head(ss) \o Flatten(Tail(ss))

\* all the bytes the receiver is to write: the frames of sent, in order
Stream == Flatten([i \in 1..Len(sent) |-> Frame(sent[i])])

\* the bytes pipe_f.read has returned so far: those of Stream that are
\* neither still to be written nor still in the pipe
BytesRead == SubSeq(Stream, 1, Len(Stream) - Len(unwritten) - Len(pipe))

\* the bytes main has taken out of rd_buffer so far: for every frame the
\* header it found (the delimiter and the length) and the data it handed on
BytesTaken ==
  Flatten([i \in 1..Len(log) |->
             OUT_DATA_DELIMITER \o PackQ(log[i].length) \o log[i].data])

(***************************************************************************)
(* Properties                                                               *)
(***************************************************************************)
\* C1: however the bytes of the frames are split into reads, every payload
\* main takes out of the buffer is the payload of the frame in that place of
\* the stream, as it is when the frame arrives in one read.
C1_ChunkingInvariance ==
  \A i \in 1..Len(log) : i <= Len(sent) /\ log[i].data = sent[i]

\* C2: every payload handed on has exactly the number of bytes its header
\* announced (extraction waits while fewer than header + L bytes are there).
C2_ExactLength ==
  \A i \in 1..Len(log) : Len(log[i].data) = log[i].length

\* C3: when the buffer starts with a whole frame and a second whole frame
\* is behind it (or the whole frame was left behind an earlier one), the
\* iteration returns the payload of the first, removes exactly that frame,
\* and so hands the frames on in the order of arrival.
C3_MultiFrameDrain ==
  [][ (/\ ReaderStep
       /\ CompleteAt(BufRead)
       /\ CompleteAt(AfterFront(BufRead)) \/ CompleteAt(rd_buffer))
      => (/\ Len(log') = Len(log) + 1
          /\ log'[Len(log')].data = FrontPayload(BufRead)
          /\ rd_buffer' = AfterFront(BufRead)) ]_vars

\* C4: when a full header is buffered and a byte of the delimiter differs
\* from the constant, main ends with RuntimeError, no payload is returned
\* and no byte is taken out of the buffer.
C4_DesyncDetected ==
  (pipe = << >> /\ input.at > 0 /\ Len(input.buf) >= OUT_DATA_HEADER_LEN)
    => (/\ state = "TERMINATED"
        /\ error = "RuntimeError"
        /\ log = << >>
        /\ files = NoFiles
        /\ rd_buffer = input.buf)

C4_Witness ==
  /\ pipe = << >>
  /\ input.at > 32
  /\ Len(input.buf) >= OUT_DATA_HEADER_LEN
  /\ state = "TERMINATED"
  /\ error = "RuntimeError"

\* C5: an iteration that finds a wrong delimiter ends main with
\* RuntimeError, and after that nothing is read, extracted, decrypted or
\* saved, whatever is written into the pipe.
C5_ProtocolErrorFatal ==
  [][ /\ (ReaderStep /\ Desynced(BufRead))
           => (/\ state' = "TERMINATED"
               /\ error' = "RuntimeError"
               /\ log' = log
               /\ files' = files)
      /\ (state = "TERMINATED" /\ error = "RuntimeError")
           => (/\ ~ReaderStep
               /\ UNCHANGED << rd_buffer, decrypted_data, state, error, files,
                               clock, log >>) ]_vars

C5_Witness ==
  /\ state = "TERMINATED"
  /\ error = "RuntimeError"
  /\ Desynced(rd_buffer)
  /\ pipe # << >>

\* C6: in normal mode, after a frame whose decrypted message has a checksum
\* other than the CRC32 of its content, nothing was saved for the frame
\* and main is still in AWAITING_FRAME.
C6_ChecksumRecoverable ==
  (/\ NormalMode
   /\ log # << >>
   /\ LastEntry.parser
   /\ ChecksumMismatch(decrypted_data))
    => (state = "AWAITING_FRAME" /\ LastEntry.saved = << >>)

\* C7: in normal mode, after a frame whose decrypted message is shorter
\* than the inner header, nothing was saved for the frame and main is still
\* in AWAITING_FRAME.
C7_ShortRecoverable ==
  (/\ NormalMode
   /\ log # << >>
   /\ LastEntry.parser
   /\ Len(decrypted_data) < USER_HEADER_LEN)
    => (state = "AWAITING_FRAME" /\ LastEntry.saved = << >>)

C11_NameTrimming ==
  (output # NoInput) => output.filename = input.name

\* a name with a NUL byte inside it that fills the whole field
C11_Witness ==
  /\ output # NoInput
  /\ Len(input.name) = USER_NAME_LEN
  /\ \E i \in 1..Len(input.name) : input.name[i] = 0
  /\ output.filename = input.name

\* C12: with --save-raw, an iteration that takes a frame out of the buffer
\* and decrypts it to a non-empty string saves the whole decrypted string,
\* inner header included, under the timestamp; parse_user_data is not
\* called, so main goes on whatever the checksum or the length of the
\* decrypted string.
C12_RawSave ==
  [][ (/\ save_raw
       /\ ReaderStep
       /\ Len(log') = Len(log) + 1
       /\ decrypted_data' # << >>)
      => LET e == log'[Len(log')]
         IN  /\ e.gpg
             /\ ~e.parser
             /\ e.saved = << Timestamp(clock') >>
             /\ files' = [n \in DOMAIN files \cup {Timestamp(clock')}
                            |-> IF n = Timestamp(clock') THEN decrypted_data'
                                ELSE files[n]]
             /\ state' = "AWAITING_FRAME"
             /\ error' = "none" ]_vars

\* a message with a wrong checksum was saved whole, and a later frame was
\* handled after it
C12_Witness ==
  /\ save_raw
  /\ Len(log) = 2
  /\ state = "AWAITING_FRAME"
  /\ \E n \in DOMAIN files :
       /\ ChecksumMismatch(files[n])
       /\ log[1].saved = << n >>
  /\ Len(decrypted_data) < USER_HEADER_LEN
  /\ log[2].saved # << >>

\* C13: the outer header is 40 bytes, a 32-byte delimiter and an 8-byte
\* length: an iteration leaves the buffer as it is while it holds fewer than
\* 40 bytes, ends main when the first 32 bytes are not the delimiter, waits
\* while fewer than 40 + L bytes are there (L read from bytes 32..39), and
\* otherwise hands on the L bytes from offset 40 and removes 40 + L bytes.
C13_HeaderLayout ==
  [][ ReaderStep
      => LET b    == BufRead
             L    == UnpackQ(SubSeq(b, 33, 40))
             wait == rd_buffer' = b /\ log' = log /\ state' = state
         IN  IF Len(b) < 40 THEN wait
             ELSE IF SubSeq(b, 1, 32) # SubSeq(OUT_DATA_DELIMITER, 1, 32)
             THEN state' = "TERMINATED" /\ error' = "RuntimeError"
             ELSE IF Len(b) - 40 < L THEN wait
             ELSE /\ Len(log') = Len(log) + 1
                  /\ log'[Len(log')].data = SubSeq(b, 41, 40 + L)
                  /\ rd_buffer' = SliceFrom(b, 40 + L) ]_vars

\* C14: whenever main is blocked in the read (it loops and the pipe is
\* empty), rd_buffer does not start with a whole frame: every frame that has
\* arrived in full was taken out and processed before the read.
C14_DrainBeforeRead ==
  (state = "AWAITING_FRAME" /\ pipe = << >>) => ~CompleteAt(rd_buffer)

\* C15: once the receiver has closed the pipe, all its bytes are read and no
\* further iteration of main changes anything, main is TERMINATED: it does
\* not go on reading for ever.
C15_ClosureTerminates ==
  (closed /\ pipe = << >> /\ ~ENABLED << Loop >>_vars)
    => state = "TERMINATED"

\* C16: an iteration that finds the whole header of a valid frame of length
\* 0 at the front of the buffer takes the frame out: the bytes of its header
\* are removed from the front and the bytes behind them stay, so that the
\* frame that follows is at the front for the next extraction.
C16_ZeroLengthConsumed ==
  [][ (/\ ReaderStep
       /\ HeaderAt(BufRead)
       /\ Announced(BufRead) = 0)
      => (/\ rd_buffer' = SliceFrom(BufRead, OUT_DATA_HEADER_LEN)
          /\ Len(log') = Len(log) + 1
          /\ log'[Len(log')].data = << >>) ]_vars

\* C17: an iteration that takes a frame out of the buffer removes exactly the
\* header and the L bytes the header announces from the front, and leaves
\* the bytes that followed them, unchanged and in order, in the buffer.
C17_FrameEffect ==
  [][ (ReaderStep /\ Len(log') = Len(log) + 1)
      => LET b == BufRead
             L == Announced(b)
         IN  /\ Len(b) >= OUT_DATA_HEADER_LEN + L
             /\ Len(b) - Len(rd_buffer') = OUT_DATA_HEADER_LEN + L
             /\ rd_buffer' = SliceFrom(b, OUT_DATA_HEADER_LEN + L) ]_vars

C20_UnsignedChecksum ==
  (output # NoInput)
    => /\ output.checksum >= 0
       /\ output.checksum \div 65536 < 65536
       /\ (input.altered = input.content /\ input.name \in Names)
            => output.raised = "none"

\* C20 as amended: the checksum is taken from the header as a signed 32-bit
\* integer, in -2^31 .. 2^31 - 1, and compared with zlib.crc32 of the
\* content, a signed integer of the same range with the same 32 bits; so a
\* message built with the CRC32 of its content is accepted and saved
\* whether the top bit of that CRC32 is set or not, and a message whose
\* checksum has other bits than the CRC32 of its content is rejected.
C20_SignedChecksum ==
  (output # NoInput)
    => LET word == Crc32Word(input.content)
       IN  /\ output.checksum = ToSigned(word)
           /\ (output.checksum < 0) = (word[4] >= 128)
           /\ (Crc32Word(input.altered) = word /\ input.name \in Names)
                => (/\ output.raised = "none"
                    /\ files = [n \in {input.name} |-> input.altered])
           /\ (Crc32Word(input.altered) # word)
                => output.raised = "ValueError"

\* a message whose CRC32 has the top bit set was accepted and saved
C20_Witness ==
  /\ output # NoInput
  /\ Crc32Word(input.content)[4] >= 128
  /\ output.checksum < 0
  /\ output.raised = "none"
  /\ input.name \in DOMAIN files

\* C21: in every state the headers and the data of the frames taken out so
\* far, in order, followed by rd_buffer, are exactly the bytes read from the
\* pipe so far: main drops, doubles and reorders no byte of the stream.
C21_ByteConservation == BytesTaken \o rd_buffer = BytesRead

\* two frames were taken out, one of them with fewer bytes than its header
\* announces, and bytes of the stream are left in the buffer
C21_Witness ==
  /\ Len(log) = 2
  /\ \E i \in 1..2 : Len(log[i].data) < log[i].length
  /\ rd_buffer # << >>

\* C22: _ask_multiple_choice ends only by returning, only for a number in
\* 0 .. max_resp - 1, and then with vec[n] for n < len(vec) and with None
\* for n = len(vec); for every other answer it prompts again.
C22_AskInRange ==
  (output.pc # "prompt")
    => /\ output.pc = "returned"
       /\ output.resp \in
            0..(MaxResp(input.vec, input.none_option) - 1)
       /\ output.choice = IF output.resp < Len(input.vec)
                          THEN input.vec[output.resp + 1] ELSE None

\* C23: called on a command (a list with a first element), root_cmd returns
\* the command with "sudo" put in front exactly when the user is not root
\* and the first element is not "sudo", all elements of the command kept in
\* order; called again on its result it returns the same list, so no
\* second "sudo" is put in front.
C23_RootCmd ==
  (output.calls >= 1 /\ input.cmd # << >>)
    => LET added == input.euid # 0 /\ input.cmd[1] # "sudo"
       IN  /\ output.raised = "none"
           /\ output.cmd = IF added THEN << "sudo" >> \o input.cmd
                           ELSE input.cmd
           /\ added => output.cmd[2] # "sudo"

\* the second call on a command that got its "sudo" in the first
C23_Witness ==
  /\ output.calls = 2
  /\ input.euid # 0
  /\ Len(input.cmd) = MaxCmdLen
  /\ input.cmd[1] # "sudo"
  /\ output.cmd = << "sudo" >> \o input.cmd

\* C24: for every header shorter than target_len - 2 the line _print_header
\* prints (dashes, a space, the header, a space, dashes) has exactly
\* target_len characters, whether the width left for the dashes is even or
\* odd.
C24_HeaderWidth ==
  (output # NoInput /\ Len(input.header) < input.target_len - 2)
    => Len(output.line) = input.target_len

====
